---- MODULE Spec2Model ----
(***************************************************************************)
(* Model of the ChatterBox TTS API server (src/tts-server/server.py):      *)
(* the engine load at startup, the voice store on the file system, the     *)
(* upload / generate / list / delete / health handlers running on one      *)
(* asyncio event loop, and the temporary files the handlers create.        *)
(*                                                                         *)
(* Abstractions.  A waveform is its sample count, sample rate and peak     *)
(* amplitude after the mono mix (in hundredths of full scale); rates       *)
(* are taken from a set for which target/original is exact in binary       *)
(* floating point, so int(len * ratio) is the integer floor.  A voice name *)
(* is the sequence of its "/"-separated segments; names are relative.      *)
(* Temporary file names are fresh identifiers.                             *)
(***************************************************************************)
EXTENDS Integers, Sequences, FiniteSets, TLC

\* ---------------------------------------------------------------- bounds
MaxRequests == 2      \* upload and generate requests issued in one run
MaxLen == 2           \* longest uploaded waveform, in samples

\* ------------------------------------------------------------- constants
TargetRate == 24000   \* target_sample_rate passed by upload_voice
Rates == {24000, 48000}
PeakTarget == 85      \* 0.85 of full scale, in hundredths

None == "None"
NoVoice == <<>>       \* voice_name absent (Form(None)) or empty: falsy

\* The file system: the process runs in Cwd, VOICES_DIR is ./voices.
Cwd == <<"app">>
VOICES_DIR == Cwd \o <<"voices">>
Dirs == {<<>>, Cwd, VOICES_DIR}

\* Voice names the requests use.
Names == { <<"a">>,
           <<"..", "voices", "a">>,
           <<"..", "..", "etc">>,
           <<"b", "..", "a">> }
\* A path parameter of a route matches no "/".
PathParamNames == {n \in Names : Len(n) = 1}

Texts == {"", "hello"}
Exaggerations == {2, 15}   \* tenths; the default 0.2 and a value out of [0,1]
CfgWeights == {8}          \* tenths; the default 0.8

\* Uploaded files: undecodable bytes, or a waveform (one of them silent).
Silence == [n |-> 1, sr |-> TargetRate, peak |-> 0]
Waveforms == [n : 0..MaxLen, sr : Rates, peak : {50}] \cup {Silence}
BadFile == [n |-> 0, sr |-> 0, peak |-> 0]
Files == Waveforms \cup {BadFile}

VARIABLES
    CHATTERBOX_AVAILABLE, \* import of chatterbox / torchaudio succeeded
    SCIPY_AVAILABLE,      \* import of scipy.signal succeeded
    tts_model,            \* the global engine handle: None, "cuda" or "cpu"
    pc,                   \* position of startup_event
    loadLog,              \* the from_pretrained calls made, in order
    voiceFiles,           \* the .wav files on disk: [dir, stem, n, peak]
    inTemps,              \* temp input files of upload_voice that exist
    outTemps,             \* temp output files of generate_tts that exist
    reqs,                 \* upload and generate requests issued so far
    uploads,              \* upload handlers suspended at await file.read()
    loop,                 \* what occupies the event loop
    sending,              \* FileResponses being sent, by temp file
    lastOp,               \* per name: the last successful upload or delete
    resp                  \* the answer given last, by any handler

vars == <<CHATTERBOX_AVAILABLE, SCIPY_AVAILABLE, tts_model, pc, loadLog,
          voiceFiles, inTemps, outTemps, reqs, uploads, loop, sending,
          lastOp, resp>>

envVars == <<CHATTERBOX_AVAILABLE, SCIPY_AVAILABLE>>
engineVars == <<tts_model, pc, loadLog>>

\* ------------------------------------------------------------ the engine

\* startup_event up to the first load: without the library it returns.
StartupEntry(available) ==
    IF available THEN "LoadingPreferred" ELSE "done"

\* As AfterPreferred, but a failed load ends startup: no fallback attempt.
AfterPreferredNoFallback(ok) ==
    IF ok THEN [pc |-> "done", model |-> "cuda"]
          ELSE [pc |-> "done", model |-> None]

\* Outcome of from_pretrained(device="cuda").
AfterPreferred(ok) ==
    IF ok THEN [pc |-> "done", model |-> "cuda"]
          ELSE [pc |-> "LoadingFallback", model |-> None]

\* Outcome of from_pretrained(device="cpu").
AfterFallback(ok) ==
    IF ok THEN [pc |-> "done", model |-> "cpu"]
          ELSE [pc |-> "done", model |-> None]

StartupBegin ==
    /\ pc = "Unloaded"
    /\ pc' = StartupEntry(CHATTERBOX_AVAILABLE)
    /\ UNCHANGED <<envVars, tts_model, loadLog, voiceFiles, inTemps, outTemps,
                   reqs, uploads, loop, sending, lastOp, resp>>

LoadPreferred ==
    /\ pc = "LoadingPreferred"
    /\ \E ok \in BOOLEAN :
        /\ pc' = AfterPreferred(ok).pc
        /\ tts_model' = AfterPreferred(ok).model
        /\ loadLog' = Append(loadLog, [device |-> "cuda", ok |-> ok])
    /\ UNCHANGED <<envVars, voiceFiles, inTemps, outTemps, reqs, uploads,
                   loop, sending, lastOp, resp>>

LoadFallback ==
    /\ pc = "LoadingFallback"
    /\ \E ok \in BOOLEAN :
        /\ pc' = AfterFallback(ok).pc
        /\ tts_model' = AfterFallback(ok).model
        /\ loadLog' = Append(loadLog, [device |-> "cpu", ok |-> ok])
    /\ UNCHANGED <<envVars, voiceFiles, inTemps, outTemps, reqs, uploads,
                   loop, sending, lastOp, resp>>

\* Requests are served once startup has completed and the loop is free.
Serving == pc = "done" /\ loop.state = "idle"

\* "if not tts_model"
Ready(model) == model # None

\* -------------------------------------------------------- AudioNormalizer

\* convert_to_voice_format: mono mix, resample when scipy is there, peak
\* normalisation; np.max of an empty array raises ValueError.
convert_to_voice_format(audio_data, original_sr, target_sample_rate) ==
    LET num_samples ==
            IF original_sr # target_sample_rate /\ SCIPY_AVAILABLE
            THEN (audio_data.n * target_sample_rate) \div original_sr
            ELSE audio_data.n
    IN  IF num_samples = 0
        THEN [ok |-> FALSE, n |-> 0, peak |-> 0]
        ELSE [ok |-> TRUE, n |-> num_samples,
              peak |-> IF audio_data.peak > 0 THEN PeakTarget ELSE 0]

\* ------------------------------------------------------------- VoiceStore

Parent(dir) == IF dir = <<>> THEN dir ELSE SubSeq(dir, 1, Len(dir) - 1)

\* Follow directory segments from dir; a segment that names no directory
\* makes the path unusable (ENOENT).
RECURSIVE Walk(_, _)
Walk(dir, segs) ==
    IF segs = <<>> THEN [ok |-> TRUE, dir |-> dir]
    ELSE IF Head(segs) = ".." THEN Walk(Parent(dir), Tail(segs))
    ELSE IF Append(dir, Head(segs)) \in Dirs
         THEN Walk(Append(dir, Head(segs)), Tail(segs))
         ELSE [ok |-> FALSE, dir |-> dir]

\* VOICES_DIR / f"{voice_name}.wav": the suffix goes onto the last segment,
\* the segments before it are directories below VOICES_DIR.
VoicePath(voice_name) ==
    LET w == Walk(VOICES_DIR, SubSeq(voice_name, 1, Len(voice_name) - 1))
    IN  [ok |-> w.ok, dir |-> w.dir,
         stem |-> voice_name[Len(voice_name)], suffix |-> "wav"]

FilesAt(files, path) ==
    {f \in files : path.ok /\ f.dir = path.dir /\ f.stem = path.stem}

\* voice_path.exists()
Exists(files, path) == FilesAt(files, path) # {}

\* sf.write(output_path, converted_audio, 24000): creates or overwrites.
WriteFile(files, path, audio) ==
    (files \ FilesAt(files, path))
        \cup {[dir |-> path.dir, stem |-> path.stem,
               n |-> audio.n, peak |-> audio.peak]}

\* voice_path.unlink()
Unlink(files, path) == files \ FilesAt(files, path)

Absent == [present |-> FALSE, n |-> 0, peak |-> 0]
Stored(audio) == [present |-> TRUE, n |-> audio.n, peak |-> audio.peak]

\* What a lookup of voice_name finds on disk.
Resolve(files, voice_name) ==
    LET at == FilesAt(files, VoicePath(voice_name))
    IN  IF at = {} THEN Absent ELSE Stored(CHOOSE f \in at : TRUE)

\* ------------------------------------------------------------ upload flow

NoResp == [kind |-> "none", status |-> 0]

\* What "await file.read()" ends in: the request is cancelled, the read
\* raises, or the uploaded bytes arrive.
Reads == {[outcome |-> "cancelled", file |-> BadFile],
          [outcome |-> "error", file |-> BadFile]}
         \cup {[outcome |-> "ok", file |-> f] : f \in Files}

\* The body of upload_voice after the temp file exists: how far it gets.
UploadStage(name, file, readOutcome) ==
    IF readOutcome = "cancelled" THEN "cancelled"
    ELSE IF readOutcome = "error" THEN "read"
    ELSE IF file = BadFile THEN "decode"
    ELSE IF ~convert_to_voice_format(file, file.sr, TargetRate).ok
         THEN "normalize"
    ELSE IF ~VoicePath(name).ok THEN "write"
    ELSE "ok"

\* The answer: 200, 500 from the except clause, none when cancelled.
UploadStatus(stage) ==
    IF stage = "ok" THEN 200 ELSE IF stage = "cancelled" THEN 0 ELSE 500

\* As TempsAfterUpload, but the unlink sits at the end of the try block.
TempsAfterUploadNoFinally(temps, tmp, stage) ==
    IF stage = "ok" THEN temps \ {tmp} ELSE temps

\* The finally clause: the temp file is unlinked whatever the stage.
TempsAfterUpload(temps, tmp, stage) == temps \ {tmp}

\* As UploadPrecheck, without the check of the engine handle.
UploadPrecheckNone(model) == 0

\* The check before the temp file is created: 503, else 0 (go on).
UploadPrecheck(model) == IF ~Ready(model) THEN 503 ELSE 0

\* upload_voice up to "await file.read()": the 503 check, then the temp
\* input file is created and the handler waits for the upload's bytes.
UploadBegin ==
    /\ Serving
    /\ reqs < MaxRequests
    /\ reqs' = reqs + 1
    /\ \E name \in Names :
        IF UploadPrecheck(tts_model) # 0
        THEN /\ resp' = [kind |-> "upload",
                         status |-> UploadPrecheck(tts_model),
                         stage |-> "unavailable", name |-> name,
                         file |-> BadFile, out |-> Absent, tmp |-> 0]
             /\ UNCHANGED <<inTemps, uploads>>
        ELSE /\ inTemps' = inTemps \cup {reqs + 1}
             /\ uploads' = uploads \cup {[tmp |-> reqs + 1, name |-> name]}
             /\ UNCHANGED resp
    /\ UNCHANGED <<envVars, engineVars, voiceFiles, outTemps, loop, sending,
                   lastOp>>

\* upload_voice from the return of file.read() to the end of the finally
\* clause: decode, normalise, store, answer, unlink the temp file.
UploadResume ==
    /\ Serving
    /\ \E u \in uploads, read \in Reads :
        LET file == read.file
            stage == UploadStage(u.name, file, read.outcome)
            audio == convert_to_voice_format(file, file.sr, TargetRate)
        IN  /\ uploads' = uploads \ {u}
            /\ inTemps' = TempsAfterUpload(inTemps, u.tmp, stage)
            /\ voiceFiles' = IF stage = "ok"
                             THEN WriteFile(voiceFiles, VoicePath(u.name), audio)
                             ELSE voiceFiles
            /\ lastOp' = IF stage = "ok"
                         THEN [lastOp EXCEPT ![u.name] = Stored(audio)]
                         ELSE lastOp
            /\ resp' = [kind |-> "upload", status |-> UploadStatus(stage),
                        stage |-> stage, name |-> u.name,
                        file |-> file,
                        out |-> IF stage = "ok" THEN Stored(audio) ELSE Absent,
                        tmp |-> u.tmp]
    /\ UNCHANGED <<envVars, engineVars, outTemps, reqs, loop, sending>>

\* ---------------------------------------------------------- generate flow

Idle == [state |-> "idle", text |-> "", voice |-> NoVoice,
         exaggeration |-> 0, cfg_weight |-> 0, voiceExisted |-> FALSE]

\* As GeneratePrecheck, without the check of the engine handle.
GeneratePrecheckNoModelCheck(model, text) ==
    IF text = "" THEN 400 ELSE 0

\* As GeneratePrecheck, without the check of the text.
GeneratePrecheckNoTextCheck(model, text) ==
    IF ~Ready(model) THEN 503 ELSE 0

\* The two checks before the try block: 503, then 400, else 0 (go on).
GeneratePrecheck(model, text) ==
    IF ~Ready(model) THEN 503
    ELSE IF text = "" THEN 400
    ELSE 0

\* The voice lookup inside the try block: 404 is raised when a voice is
\* named and its file does not exist, else 0 (go on).
VoiceLookup(files, voice_name) ==
    IF voice_name # NoVoice /\ ~Exists(files, VoicePath(voice_name))
    THEN 404 ELSE 0

\* "except Exception as e: raise HTTPException(status_code=500, ...)":
\* whatever was raised inside the try block, HTTPException included,
\* leaves the handler as a 500.
ExceptClause(raised) == 500

\* generate_tts up to the call of tts_model.generate, which then occupies
\* the event loop: the handler is a coroutine and the call is not awaited.
GenerateBegin ==
    /\ Serving
    /\ reqs < MaxRequests
    /\ reqs' = reqs + 1
    /\ \E text \in Texts, voice \in Names \cup {NoVoice},
          ex \in Exaggerations, cfg \in CfgWeights :
        LET pre == GeneratePrecheck(tts_model, text)
            look == VoiceLookup(voiceFiles, voice)
            existed == voice # NoVoice /\ Exists(voiceFiles, VoicePath(voice))
            answer(st) == [kind |-> "generate", status |-> st, text |-> text,
                           voice |-> voice, ready |-> Ready(tts_model),
                           voiceExisted |-> existed, invoked |-> FALSE,
                           tmp |-> 0]
        IN  IF pre # 0
            THEN resp' = answer(pre) /\ UNCHANGED loop
            ELSE IF look # 0
            THEN resp' = answer(ExceptClause(look)) /\ UNCHANGED loop
            ELSE /\ loop' = [state |-> "synth", text |-> text, voice |-> voice,
                             exaggeration |-> ex, cfg_weight |-> cfg,
                             voiceExisted |-> existed]
                 /\ UNCHANGED resp
    /\ UNCHANGED <<envVars, engineVars, voiceFiles, inTemps, outTemps,
                   uploads, sending, lastOp>>

\* tts_model.generate returns or raises; then the output temp file is
\* created, ta.save writes it or raises, and the FileResponse is returned
\* with background=None.
GenerateSynthReturn ==
    /\ pc = "done"
    /\ loop.state = "synth"
    /\ loop' = Idle
    /\ \E synthOk \in BOOLEAN, saveOk \in BOOLEAN :
        LET answer(st, t) == [kind |-> "generate", status |-> st,
                              text |-> loop.text, voice |-> loop.voice,
                              ready |-> Ready(tts_model),
                              voiceExisted |-> loop.voiceExisted,
                              invoked |-> TRUE, tmp |-> t]
        IN  IF ~synthOk
            THEN /\ resp' = answer(ExceptClause(0), 0)
                 /\ UNCHANGED <<outTemps, sending>>
            ELSE /\ outTemps' = outTemps \cup {reqs}
                 /\ IF saveOk
                    THEN /\ resp' = answer(200, reqs)
                         /\ sending' = sending \cup {reqs}
                    ELSE /\ resp' = answer(ExceptClause(0), reqs)
                         /\ UNCHANGED sending
    /\ UNCHANGED <<envVars, engineVars, voiceFiles, inTemps, reqs, uploads,
                   lastOp>>

\* The framework sends the file of a FileResponse; the transfer ends
\* complete, in an error, or with the client gone.  No background task
\* was given, so nothing runs afterwards.
SendResponse ==
    /\ Serving
    /\ \E t \in sending, outcome \in {"sent", "failed", "disconnected"} :
        /\ sending' = sending \ {t}
        /\ resp' = [kind |-> "sent", status |-> 200, outcome |-> outcome,
                    tmp |-> t]
    /\ UNCHANGED <<envVars, engineVars, voiceFiles, inTemps, outTemps, reqs,
                   uploads, loop, lastOp>>

\* ------------------------------------------------- root / list / delete

\* GET /
Root ==
    /\ Serving
    /\ resp' = [kind |-> "root", status |-> 200,
                model_loaded |-> Ready(tts_model),
                chatterbox_available |-> CHATTERBOX_AVAILABLE]
    /\ UNCHANGED <<envVars, engineVars, voiceFiles, inTemps, outTemps, reqs,
                   uploads, loop, sending, lastOp>>

\* GET /voices: VOICES_DIR.glob("*.wav"), every file written by sf.write
\* reads back.
ListVoices ==
    /\ Serving
    /\ resp' = [kind |-> "list", status |-> 200,
                voices |-> {[name |-> f.stem, n |-> f.n] : f \in
                              {g \in voiceFiles : g.dir = VOICES_DIR}}]
    /\ UNCHANGED <<envVars, engineVars, voiceFiles, inTemps, outTemps, reqs,
                   uploads, loop, sending, lastOp>>

\* DELETE /voices/{voice_name}
DeleteStatus(files, voice_name, unlinkOk) ==
    IF ~Exists(files, VoicePath(voice_name)) THEN 404
    ELSE IF unlinkOk THEN 200 ELSE 500

DeleteVoice ==
    /\ Serving
    /\ \E name \in PathParamNames, unlinkOk \in BOOLEAN :
        LET st == DeleteStatus(voiceFiles, name, unlinkOk)
        IN  /\ voiceFiles' = IF st = 200
                             THEN Unlink(voiceFiles, VoicePath(name))
                             ELSE voiceFiles
            /\ lastOp' = IF st = 200 THEN [lastOp EXCEPT ![name] = Absent]
                         ELSE lastOp
            /\ resp' = [kind |-> "delete", status |-> st, name |-> name]
    /\ UNCHANGED <<envVars, engineVars, inTemps, outTemps, reqs, uploads,
                   loop, sending>>

\* ------------------------------------------------------- specification

Init ==
    /\ CHATTERBOX_AVAILABLE \in BOOLEAN
    /\ SCIPY_AVAILABLE \in BOOLEAN
    /\ tts_model = None
    /\ pc = "Unloaded"
    /\ loadLog = <<>>
    /\ voiceFiles = {}
    /\ inTemps = {}
    /\ outTemps = {}
    /\ reqs = 0
    /\ uploads = {}
    /\ loop = Idle
    /\ sending = {}
    /\ lastOp = [n \in Names |-> Absent]
    /\ resp = NoResp

Next ==
    \/ StartupBegin
    \/ LoadPreferred
    \/ LoadFallback
    \/ UploadBegin
    \/ UploadResume
    \/ GenerateBegin
    \/ GenerateSynthReturn
    \/ SendResponse
    \/ Root
    \/ ListVoices
    \/ DeleteVoice

Spec == Init /\ [][Next]_vars

\* ----------------------------------------------------------- properties

IsPrefix(p, q) == Len(p) <= Len(q) /\ SubSeq(q, 1, Len(p)) = p

Attempts(device) ==
    Cardinality({i \in 1..Len(loadLog) : loadLog[i].device = device})
PreferredOk == \E i \in 1..Len(loadLog) :
                    loadLog[i].device = "cuda" /\ loadLog[i].ok
PreferredFailed == \E i \in 1..Len(loadLog) :
                    loadLog[i].device = "cuda" /\ ~loadLog[i].ok
FallbackOk == \E i \in 1..Len(loadLog) :
                    loadLog[i].device = "cpu" /\ loadLog[i].ok
FallbackFailed == \E i \in 1..Len(loadLog) :
                    loadLog[i].device = "cpu" /\ ~loadLog[i].ok

\* The load lifecycle as C4 words it.
Lifecycle ==
    /\ pc # "Unloaded" => (pc = "LoadingPreferred" \/ loadLog # <<>>)
    /\ loadLog # <<>> => loadLog[1].device = "cuda"
    /\ Attempts("cuda") <= 1
    /\ Attempts("cpu") <= 1
    /\ Attempts("cpu") = 1 => PreferredFailed
    /\ pc = "done" =>
        /\ Attempts("cpu") = 1 <=> PreferredFailed
        /\ tts_model = "cuda" <=> PreferredOk
        /\ tts_model = "cpu" <=> (PreferredFailed /\ FallbackOk)
        /\ tts_model = None <=> (PreferredFailed /\ FallbackFailed)

\* C1: every output temp file that exists belongs to a response still
\* being sent; once a generate request has completed, its file is gone.
C1_OutputTempRemoved == outTemps \subseteq sending

\* C2: a generate request with a Ready engine, non-empty text and a voice
\* name that has no asset is answered 404, and synthesize is not invoked.
C2_UnknownVoiceNotFound ==
    (/\ resp.kind = "generate"
     /\ resp.ready
     /\ resp.text # ""
     /\ resp.voice # NoVoice
     /\ ~resp.voiceExisted)
    => (resp.status = 404 /\ ~resp.invoked)

\* C3: no upload has written a file at a location outside the voices
\* directory, whatever the voice name.
C3_NoFileOutsideVoices ==
    \A f \in voiceFiles : IsPrefix(VOICES_DIR, f.dir)

\* C4 (as stated): startup attempts the preferred load first, the fallback
\* load iff the preferred one failed and at most once, and ends Ready on
\* the backend that loaded or unset exactly when both loads failed; from
\* Unloaded it always enters LoadingPreferred.
C4_LoadLifecycle == Lifecycle

\* C4 (amended): the lifecycle of C4 is followed when the synthesis
\* library was imported; when it was not, startup attempts no load and the
\* handle stays unset.
C4_LoadLifecycleWhenAvailable ==
    /\ CHATTERBOX_AVAILABLE => Lifecycle
    /\ ~CHATTERBOX_AVAILABLE => (loadLog = <<>> /\ tts_model = None)

C4_Witness ==
    /\ pc = "done"
    /\ CHATTERBOX_AVAILABLE
    /\ tts_model = "cpu"
    /\ Len(loadLog) = 2

\* C5: with the engine handle unset every generate request is answered 503
\* without invoking the engine and without being left in flight, and once
\* startup is over no step changes the engine handle.
C5_UnsetEngineRejects ==
    /\ [](/\ (resp.kind = "generate" /\ ~resp.ready)
                => (resp.status = 503 /\ ~resp.invoked)
          /\ loop.state = "synth" => Ready(tts_model))
    /\ [][pc = "done" => tts_model' = tts_model]_vars

C5_Witness ==
    /\ pc = "done"
    /\ Len(loadLog) = 2
    /\ tts_model = None
    /\ resp.kind = "generate"
    /\ resp.text # ""
    /\ resp.voice # NoVoice
    /\ resp.status = 503

\* C6: while a synthesis call is in flight, some handler of another
\* request (health check, list, delete, upload) can take a step.
C6_SynthesisDoesNotStall ==
    loop.state = "synth" =>
        ENABLED (Root \/ ListVoices \/ DeleteVoice \/ UploadBegin
                      \/ UploadResume)

\* C7: a name resolves iff the last successful operation on that name was
\* an upload, and then to the asset that upload wrote.
C7_LastWriteWins ==
    \A name \in Names : Resolve(voiceFiles, name) = lastOp[name]

\* C8: an upload whose decoded audio is not at the target rate, on a
\* server without the resampling library, fails in normalisation; it is
\* never stored with the input's sample count.
C8_NoUnresampledAudio ==
    (/\ resp.kind = "upload"
     /\ resp.stage \in {"normalize", "write", "ok"}
     /\ resp.file.sr # TargetRate
     /\ ~SCIPY_AVAILABLE)
    => (resp.stage = "normalize" /\ resp.status = 500)

\* C9 (as stated): a generate request with empty text is answered 400 and
\* the engine is not invoked, whatever the engine state.
C9_EmptyTextAlways400 ==
    (resp.kind = "generate" /\ resp.text = "")
    => (resp.status = 400 /\ ~resp.invoked)

\* C9 (amended): a generate request with empty text never invokes the
\* engine; it is answered 400 when the engine is Ready and 503 when the
\* engine handle is unset.
C9_EmptyTextRejected ==
    /\ (resp.kind = "generate" /\ resp.text = "")
        => (/\ ~resp.invoked
            /\ resp.status = IF resp.ready THEN 400 ELSE 503)
    /\ loop.state = "synth" => loop.text # ""

C9_Witness ==
    /\ resp.kind = "generate"
    /\ resp.text = ""
    /\ resp.ready
    /\ resp.voice # NoVoice
    /\ resp.status = 400

\* C10: a temp input file exists only while its upload request is
\* suspended in the handler; the temp file of a finished upload is gone,
\* whatever stage the upload ended in.
C10_InputTempReleased ==
    /\ inTemps \subseteq {u.tmp : u \in uploads}
    /\ (resp.kind = "upload" /\ resp.tmp # 0) => resp.tmp \notin inTemps

C10_Witness ==
    /\ resp.kind = "upload"
    /\ resp.stage = "write"
    /\ resp.status = 500
    /\ resp.tmp # 0
    /\ resp.tmp \notin inTemps
    /\ uploads # {}

\* C11: an upload request issued while the engine handle is unset is
\* answered 503 with no temp file created, and the step leaves the stored
\* voices, the temp files and the suspended uploads as they were; so with
\* the handle unset no temp input file and no suspended upload exists.
C11_UnsetEngineUploadRejected ==
    /\ [](/\ ~Ready(tts_model) => (inTemps = {} /\ uploads = {})
          /\ (resp.kind = "upload" /\ resp.stage = "unavailable")
                => (resp.status = 503 /\ resp.tmp = 0))
    /\ [][(/\ ~Ready(tts_model)
           /\ reqs' # reqs
           /\ resp'.kind = "upload")
          => (/\ resp'.status = 503
              /\ voiceFiles' = voiceFiles
              /\ inTemps' = inTemps
              /\ uploads' = uploads)]_vars

C11_Witness ==
    /\ pc = "done"
    /\ ~Ready(tts_model)
    /\ resp.kind = "upload"
    /\ resp.status = 503
    /\ resp.name = <<"a">>
    /\ reqs = 2
    /\ inTemps = {}
====
